---- MODULE Spec2Model ----
(***************************************************************************)
(* examples/amaranth/counter/counter.py: an 8-bit counter with enable and  *)
(* overflow detection (class Counter) and the testbench that drives it     *)
(* (simulate.testbench).                                                   *)
(*                                                                         *)
(* Four specifications share the variables:                               *)
(*   Spec          the Counter under every enable history: the environment *)
(*                 sets enable and the clock ticks, in any order;          *)
(*   SpecDriver    the testbench of simulate() driving the Counter;        *)
(*   SpecTestbench the testbench with the value it reads back from         *)
(*                 `yield dut.overflow` left open, so that both exits of   *)
(*                 its polling loop (break, and cycles reaching 300) occur;*)
(*   SpecCli       the script run from the command line: the dispatch on   *)
(*                 sys.argv, then generate_verilog() or simulate().        *)
(***************************************************************************)
EXTENDS Integers, Naturals, Sequences

VARIABLES
    enable,     \* Counter.enable   : Signal(), 1 bit
    count,      \* Counter.count    : Signal(8)
    overflow,   \* Counter.overflow : Signal(), 1 bit
    pc,         \* the yield the testbench generator is suspended at ("env": no testbench)
    i,          \* iterations done of the testbench's current `for _ in range(n)` loop
    cycles,     \* testbench local `cycles`
    ovRead,     \* testbench local `overflow` (the last value read back)
    edges,      \* history: clock edges so far
    nEnabled,   \* history: clock edges so far at which enable was true
    prev,       \* history: the signals just before the last clock edge
    run,        \* history: consecutive enabled edges since a state {count=0, overflow=false}; -1 if none
    runOvf,     \* history: edges of the current run after which overflow was true
    reads,      \* history: number of times the testbench has read overflow back
    argv,       \* sys.argv: the script name, then the command-line arguments
    ran,        \* history: the functions __main__ has called, in order
    status      \* "running", "returned" (the script ran to its end) or "raised"

vars == <<enable, count, overflow, pc, i, cycles, ovRead,
          edges, nEnabled, prev, run, runOvf, reads, argv, ran, status>>

\* the variables of the command-line run, which the counter and the testbench leave alone
cli == <<argv, ran, status>>

----------------------------------------------------------------------------
(* Program constants *)

\* self.count = Signal(8, name="count")
Width == 8

MaxCount == 255

InitCycles == 5

Test1Cycles == 20

Test2Cycles == 5

Test3Cycles == 10

OverflowCap == 300

TailCycles == 10

(* Bound of the model: clock edges the free environment of Spec may produce *)
MaxEdges == 260

(* Bound of the model: command-line arguments after the script name *)
MaxArgs == 2

----------------------------------------------------------------------------
(* Counter.elaborate: the sync-domain update, applied at each clock edge *)

Pow2(n) == 2 ^ n

\* mutant: the sum keeps its ninth bit (no truncation to the 8-bit signal)
NextCountNoWrap(en, c) == IF en THEN c + 1 ELSE c

\* mutant: the counter ignores enable
NextCountAlways(en, c) == (c + 1) % Pow2(Width)

\* with m.If(self.enable): m.d.sync += self.count.eq(self.count + 1)
\* the 9-bit sum is truncated to the 8 bits of count
NextCount(en, c) == IF en THEN (c + 1) % Pow2(Width) ELSE c

\* mutant: the comparison ignores enable
NextOverflowNoEnable(en, c) == c = MaxCount

\* mutant: the comparison is >= 254, so the flag is also raised one count early
NextOverflowEarly(en, c) == en /\ c >= MaxCount - 1

\* with m.If(self.enable & (self.count == 255)): overflow.eq(1); Else: overflow.eq(0)
NextOverflow(en, c) == en /\ c = MaxCount

\* mutant: the Else branch is missing, so the flag is never cleared
OverflowRegSticky(en, c, ov) == ov \/ NextOverflow(en, c)

\* mutant: the Else hangs under the enable test, so a disabled edge holds the flag
OverflowRegHold(en, c, ov) == IF en THEN NextOverflow(en, c) ELSE ov

\* the value the overflow register takes at a clock edge
OverflowReg(en, c, ov) == NextOverflow(en, c)

\* One clock edge of the sync domain: both registers are updated from the
\* values the signals had before the edge.
ClockEdge ==
    /\ count' = NextCount(enable, count)
    /\ overflow' = OverflowReg(enable, count, overflow)
    /\ edges' = edges + 1
    /\ nEnabled' = IF enable THEN nEnabled + 1 ELSE nEnabled
    /\ prev' = [count |-> count, overflow |-> overflow, enable |-> enable]
    /\ run' = IF enable
                THEN (IF run >= 0 THEN run + 1 ELSE -1)
                ELSE (IF count' = 0 /\ ~overflow' THEN 0 ELSE -1)
    /\ runOvf' = IF enable /\ run >= 0
                   THEN (IF overflow' THEN runOvf + 1 ELSE runOvf)
                   ELSE 0

\* Counter.__init__ and simulate(): the signals reset to 0 and the testbench
\* has not run.
InitSignals ==
    /\ enable = FALSE
    /\ count = 0
    /\ overflow = FALSE
    /\ i = 0
    /\ cycles = 0
    /\ ovRead = FALSE
    /\ edges = 0
    /\ nEnabled = 0
    /\ prev = [count |-> 0, overflow |-> FALSE, enable |-> FALSE]
    /\ run = 0
    /\ runOvf = 0
    /\ reads = 0

----------------------------------------------------------------------------
(* Spec: the Counter under every enable history *)

\* a Counter on its own: no script is running
Init ==
    /\ InitSignals
    /\ pc = "env"
    /\ argv = <<"counter.py">>
    /\ ran = <<>>
    /\ status = "running"

EnvSetEnable(b) ==
    /\ pc = "env"
    /\ enable' = b
    /\ UNCHANGED <<count, overflow, pc, i, cycles, ovRead,
                   edges, nEnabled, prev, run, runOvf, reads>>
    /\ UNCHANGED cli

EnvTick ==
    /\ pc = "env"
    /\ edges < MaxEdges
    /\ ClockEdge
    /\ UNCHANGED <<enable, pc, i, cycles, ovRead, reads>>
    /\ UNCHANGED cli

Next ==
    \/ \E b \in BOOLEAN : EnvSetEnable(b)
    \/ EnvTick

Spec == Init /\ [][Next]_vars

----------------------------------------------------------------------------
(* simulate.testbench: one action per yield of the generator *)

\* yield dut.enable.eq(v), then the generator runs on to the first
\* `yield Tick()` of the for loop that follows
TbSet(p, v, next) ==
    /\ pc = p
    /\ enable' = v
    /\ pc' = next
    /\ i' = 0
    /\ UNCHANGED <<count, overflow, cycles, ovRead,
                   edges, nEnabled, prev, run, runOvf, reads>>
    /\ UNCHANGED cli

\* mutant: the loop runs one iteration too many
LoopAgainOff(k, n) == k <= n

\* for _ in range(n): after k iterations the loop goes round again iff k < n
LoopAgain(k, n) == k < n

\* `yield Tick()` inside `for _ in range(n)`: one clock edge, then the
\* generator runs on to the next yield (the same one, or `next` after the loop)
TbTick(p, n, next) ==
    /\ pc = p
    /\ ClockEdge
    /\ i' = i + 1
    /\ pc' = IF LoopAgain(i + 1, n) THEN p ELSE next
    /\ UNCHANGED <<enable, cycles, ovRead, reads>>
    /\ UNCHANGED cli

Set1 == TbSet("set1", FALSE, "tick1")

Tick1 == TbTick("tick1", InitCycles, "set2")

Set2 == TbSet("set2", TRUE, "tick2")

Tick2 == TbTick("tick2", Test1Cycles, "set3")

\* mutant: Test 2 forgets to disable the counter
Set3On == TbSet("set3", TRUE, "tick3")

Set3 == TbSet("set3", FALSE, "tick3")

Tick3 == TbTick("tick3", Test2Cycles, "set4")

Set4 == TbSet("set4", TRUE, "tick4")

\* after the loop: cycles = 0, and `while cycles < 300` is entered
Tick4 ==
    /\ pc = "tick4"
    /\ ClockEdge
    /\ i' = i + 1
    /\ IF LoopAgain(i + 1, Test3Cycles)
         THEN pc' = "tick4" /\ cycles' = cycles
         ELSE pc' = "tick5" /\ cycles' = 0
    /\ UNCHANGED <<enable, ovRead, reads>>
    /\ UNCHANGED cli

\* yield Tick(); cycles += 1; then suspended at `overflow = yield dut.overflow`
Tick5 ==
    /\ pc = "tick5"
    /\ ClockEdge
    /\ cycles' = cycles + 1
    /\ pc' = "read5"
    /\ UNCHANGED <<enable, i, ovRead, reads>>
    /\ UNCHANGED cli

\* mutant: the loop does not break on a true reading
PollAgainNoBreak(v, c) == c < OverflowCap

\* mutant: the cap is checked off by one
PollAgainOff(v, c) == ~v /\ c <= OverflowCap

\* if overflow: break;  while cycles < 300
PollAgain(v, c) == ~v /\ c < OverflowCap

\* The generator is resumed with the value v of dut.overflow and runs on to
\* its next yield: the Tick of the polling loop, or the first Tick of the
\* final for loop.
TbResume(v) ==
    /\ pc = "read5"
    /\ ovRead' = v
    /\ reads' = reads + 1
    /\ IF PollAgain(v, cycles)
         THEN pc' = "tick5" /\ i' = i
         ELSE pc' = "tick6" /\ i' = 0
    /\ UNCHANGED <<enable, count, overflow, cycles,
                   edges, nEnabled, prev, run, runOvf>>
    /\ UNCHANGED cli

\* mutant: the reading is the value overflow had before the clock edge
Read5Stale == TbResume(prev.overflow)

\* overflow = yield dut.overflow, as the simulator answers it
Read5 == TbResume(overflow)

\* overflow = yield dut.overflow, with the answer left open
Read5Any == \E v \in BOOLEAN : TbResume(v)

\* mutant: the final loop is one iteration short
Tick6Short == TbTick("tick6", TailCycles - 1, "done")

Tick6 == TbTick("tick6", TailCycles, "done")

\* simulate() has been called and the testbench is about to start
InitDriver ==
    /\ InitSignals
    /\ pc = "set1"
    /\ argv = <<"counter.py">>
    /\ ran = <<"simulate">>
    /\ status = "running"

NextDriver ==
    \/ Set1
    \/ Tick1
    \/ Set2
    \/ Tick2
    \/ Set3
    \/ Tick3
    \/ Set4
    \/ Tick4
    \/ Tick5
    \/ Read5
    \/ Tick6

NextTestbench ==
    \/ Set1
    \/ Tick1
    \/ Set2
    \/ Tick2
    \/ Set3
    \/ Tick3
    \/ Set4
    \/ Tick4
    \/ Tick5
    \/ Read5Any
    \/ Tick6

\* sim.run() resumes the testbench until the generator returns
SpecDriver == InitDriver /\ [][NextDriver]_vars /\ WF_vars(NextDriver)

SpecTestbench == InitDriver /\ [][NextTestbench]_vars /\ WF_vars(NextTestbench)

----------------------------------------------------------------------------
(* __main__: the script run from the command line *)

\* the words a command-line argument is drawn from
ArgTokens == {"verilog", "Verilog", "vcd"}

\* sys.argv: the script name followed by at most MaxArgs arguments
ArgvSet ==
    {<<"counter.py">> \o a : a \in UNION {[1..n -> ArgTokens] : n \in 0..MaxArgs}}

InitCli ==
    /\ InitSignals
    /\ pc = "main"
    /\ argv \in ArgvSet
    /\ ran = <<>>
    /\ status = "running"

\* mutant: any argument at all selects the Verilog path
SelectsVerilogAnyArg(a) == Len(a) > 1

\* mutant: the last argument is compared instead of the first
SelectsVerilogLast(a) == Len(a) > 1 /\ a[Len(a)] = "verilog"

\* len(sys.argv) > 1 and sys.argv[1] == "verilog"   (a[1] is the script name)
SelectsVerilog(a) == Len(a) > 1 /\ a[2] = "verilog"

\* if ...: generate_verilog()  else: simulate()
Dispatch ==
    /\ pc = "main"
    /\ IF SelectsVerilog(argv)
         THEN ran' = Append(ran, "generate_verilog") /\ pc' = "verilog"
         ELSE ran' = Append(ran, "simulate") /\ pc' = "setup"
    /\ UNCHANGED <<enable, count, overflow, i, cycles, ovRead,
                   edges, nEnabled, prev, run, runOvf, reads, argv, status>>

\* generate_verilog(): convert the design, write counter.v, print, return
GenerateVerilog ==
    /\ pc = "verilog"
    /\ pc' = "exit"
    /\ status' = "returned"
    /\ UNCHANGED <<enable, count, overflow, i, cycles, ovRead,
                   edges, nEnabled, prev, run, runOvf, reads, argv, ran>>

\* simulate(): the simulator is built, the clock and the testbench are added,
\* the waveform file is opened, and sim.run() starts the testbench
SimSetup ==
    /\ pc = "setup"
    /\ pc' = "set1"
    /\ UNCHANGED <<enable, count, overflow, i, cycles, ovRead,
                   edges, nEnabled, prev, run, runOvf, reads, argv, ran, status>>

\* A call into the simulator, the converter or the file system raises; no
\* try/except catches it, so it ends the script.
CollaboratorRaises ==
    /\ pc \in {"verilog", "setup"}
    /\ pc' = "exit"
    /\ status' = "raised"
    /\ UNCHANGED <<enable, count, overflow, i, cycles, ovRead,
                   edges, nEnabled, prev, run, runOvf, reads, argv, ran>>

\* the testbench has returned: sim.run() ends, the file names are printed,
\* simulate() returns and the script ends
SimFinish ==
    /\ pc = "done"
    /\ pc' = "exit"
    /\ status' = "returned"
    /\ UNCHANGED <<enable, count, overflow, i, cycles, ovRead,
                   edges, nEnabled, prev, run, runOvf, reads, argv, ran>>

NextCli ==
    \/ Dispatch
    \/ GenerateVerilog
    \/ SimSetup
    \/ CollaboratorRaises
    \/ Set1
    \/ Tick1
    \/ Set2
    \/ Tick2
    \/ Set3
    \/ Tick3
    \/ Set4
    \/ Tick4
    \/ Tick5
    \/ Read5
    \/ Tick6
    \/ SimFinish

SpecCli == InitCli /\ [][NextCli]_vars /\ WF_vars(NextCli)

----------------------------------------------------------------------------
(* Properties of the Counter under every enable history (Spec) *)

\* C1: after any enable history from count = 0, count equals the number of
\* clock edges at which enable was true, modulo 256; count stays in 0..255.
C1_CountIsEnabledEdgesMod256 ==
    /\ count \in 0..255
    /\ count = nEnabled % 256

\* C1 witness: 257 enabled edges interleaved with disabled ones; the count has wrapped to 1.
C1_Witness == nEnabled = 257 /\ edges > nEnabled /\ count = 1

\* C2: initially overflow is false; after at least one clock edge overflow is
\* true iff, at the last edge, the preceding state had count = 255 and enable was true.
C2_OverflowIffWrapEdge ==
    /\ edges = 0 => ~overflow
    /\ edges > 0 => (overflow <=> (prev.count = 255 /\ prev.enable))

\* C2 witness: the state right after an enabled edge taken at count = 255.
C2_Witness == edges > 0 /\ prev.count = 255 /\ prev.enable /\ overflow

\* C3: from {count = 0, overflow = false}, 255 consecutive enabled edges give
\* count = 255 with overflow false, and the 256th gives count = 0 with overflow true.
C3_WrapAt256 ==
    /\ run = 255 => (count = 255 /\ ~overflow)
    /\ run = 256 => (count = 0 /\ overflow)

\* C3 witness: the state after the 256th consecutive enabled edge.
C3_Witness == run = 256 /\ count = 0 /\ overflow /\ prev.count = 255

\* C4: a clock edge with enable false leaves count unchanged and sets overflow
\* false, also when overflow was true before it; with enable held false for the
\* first 5 edges count stays 0 and overflow stays false.
C4_DisabledEdgeHolds ==
    /\ (edges > 0 /\ ~prev.enable) => (count = prev.count /\ ~overflow)
    /\ (edges <= 5 /\ nEnabled = 0) => (count = 0 /\ ~overflow)

\* C4 witness: a disabled edge taken from a state in which overflow was true.
C4_Witness == edges > 0 /\ ~prev.enable /\ prev.overflow /\ ~overflow /\ count = 0

\* C5: over 256 consecutive enabled edges from {0, false}, overflow is false
\* after each of edges 1..255 and true after the 256th: true after exactly one edge.
C5_OverflowOnceAt256 ==
    /\ run \in 1..255 => (~overflow /\ runOvf = 0)
    /\ run = 256 => (overflow /\ runOvf = 1)

\* C5 witness: the run has reached its 256th edge with one overflow observed.
C5_Witness == run = 256 /\ runOvf = 1 /\ overflow

\* C6: overflow is never true in two consecutive states: if it is true before
\* a clock edge it is false after it, whatever enable is at that edge.
C6_OverflowOneCycle ==
    [][(edges' = edges + 1 /\ overflow) => ~overflow']_vars

\* C6 witness: the state after an enabled edge taken while overflow was true.
C6_Witness == edges > 0 /\ prev.overflow /\ prev.enable /\ ~overflow

----------------------------------------------------------------------------
(* Properties of the testbench *)

\* clock edges of phases 1 to 4
EdgesBeforePoll == 5 + 20 + 5 + 10

\* C7: phase 5 advances one edge at a time and reads overflow after each edge;
\* it ends after the first edge k in 1..300 whose reading is true, or after
\* exactly 300 edges if every reading is false; it never advances more than
\* 300 edges and never polls again after a true reading.
C7_PollLoop ==
    /\ cycles <= 300
    /\ pc = "tick5" =>
         (~ovRead /\ cycles < 300 /\ reads = cycles /\ edges = EdgesBeforePoll + cycles)
    /\ pc = "read5" =>
         (~ovRead /\ reads = cycles - 1 /\ edges = EdgesBeforePoll + cycles)
    /\ pc \in {"tick6", "done"} =>
         /\ reads = cycles
         /\ edges = EdgesBeforePoll + cycles + i
         /\ \/ ovRead /\ cycles \in 1..300
            \/ ~ovRead /\ cycles = 300

\* C7 witness: the loop has ended at the cap, every reading having been false.
C7_Witness == pc = "tick6" /\ ~ovRead /\ cycles = 300 /\ reads = 300 /\ i = 0

\* C8: the testbench always terminates, after at most 350 clock edges, and
\* after phase 5 ends it advances exactly 10 more edges.
C8_Terminates ==
    /\ <>(pc = "done")
    /\ [](pc = "tick6" => (i < 10 /\ edges = EdgesBeforePoll + cycles + i))
    /\ [](pc = "done" => (edges <= 350 /\ edges = EdgesBeforePoll + cycles + 10))

\* C8 witness: termination on the longest run, 350 edges.
C8_Witness == pc = "done" /\ edges = 350

\* the phase (1..6) a testbench position belongs to; 7 once it has returned
Phase(p) ==
    CASE p \in {"set1", "tick1"} -> 1
      [] p \in {"set2", "tick2"} -> 2
      [] p \in {"set3", "tick3"} -> 3
      [] p \in {"set4", "tick4"} -> 4
      [] p \in {"tick5", "read5"} -> 5
      [] p = "tick6" -> 6
      [] OTHER -> 7

\* the value of enable the stimulus script prescribes at clock edge k
ScriptEnable(k) ==
    IF k <= 5 THEN FALSE
    ELSE IF k <= 25 THEN TRUE
    ELSE IF k <= 30 THEN FALSE
    ELSE TRUE

\* C9: the phases come in the order 1..6; enable is false at edges 1-5, true
\* at 6-25, false at 26-30 and true at every later edge, and it changes only
\* at a phase boundary.
C9_PhaseOrder ==
    [][ /\ Phase(pc') \in {Phase(pc), Phase(pc) + 1}
        /\ edges' = edges + 1 => enable = ScriptEnable(edges')
        /\ enable' # enable => (pc \in {"set2", "set3", "set4"} /\ edges \in {5, 25, 30})
      ]_vars

\* C9 witness: the testbench has returned after a polling loop that ran past
\* the counter's wrap, enable still true at the last edge.
C9_Witness == pc = "done" /\ edges > 300 /\ prev.enable /\ enable

\* C10: 20 enabled edges from {0, false} give count = 20 and overflow false;
\* in the driver this is the state at the end of phase 2, after 5 disabled and
\* 20 enabled edges, and overflow is false after every one of those 25 edges.
C10_TwentyAfterPhase2 ==
    /\ run = 20 => (count = 20 /\ ~overflow)
    /\ edges <= 25 => ~overflow
    /\ pc = "set3" => (edges = 25 /\ nEnabled = 20 /\ run = 20 /\ count = 20 /\ ~overflow)

\* C10 witness: the testbench at the end of phase 2.
C10_Witness == pc = "set3" /\ edges = 25 /\ count = 20

----------------------------------------------------------------------------
(* Further properties of the Counter (Spec) *)

\* C11: the update is a total, deterministic function of (enable, count)
\* only: the state after a clock edge is the one computed from the same
\* enable and count with either value of overflow, the next count is in
\* 0..255, and a clock edge can be taken from every state.
C11_UpdateIgnoresOverflow ==
    /\ [](edges < MaxEdges => ENABLED EnvTick)
    /\ [][ edges' = edges + 1 =>
             /\ count' \in 0..255
             /\ overflow' \in BOOLEAN
             /\ \A ov \in BOOLEAN :
                  /\ count' = NextCount(enable, count)
                  /\ overflow' = OverflowReg(enable, count, ov)
         ]_vars

\* C11 witness: a disabled edge taken from {count = 0, overflow = true}, which
\* ends in the same state as one taken from {count = 0, overflow = false}.
C11_Witness ==
    edges > 0 /\ prev.count = 0 /\ prev.overflow /\ ~prev.enable /\ count = 0 /\ ~overflow

\* C14: in every reachable state overflow = true implies count = 0; the
\* converse fails already in the initial state (count = 0, overflow = false).
C14_OverflowImpliesZero ==
    /\ overflow => count = 0
    /\ edges = 0 => (count = 0 /\ ~overflow)

\* C14 witness: the counter has just wrapped, after disabled edges in between.
C14_Witness == overflow /\ count = 0 /\ nEnabled = 256 /\ edges > 256

----------------------------------------------------------------------------
(* Properties of the command-line run (SpecCli) *)

\* C12: each invocation calls exactly one of simulate() and
\* generate_verilog(): with no argument simulate() (and the generator does not
\* run), with first argument `verilog` generate_verilog() (and no simulation runs).
C12_OnePathPerInvocation ==
    /\ pc = "main" => ran = <<>>
    /\ pc # "main" => Len(ran) = 1
    /\ (pc # "main" /\ Len(argv) = 1) => ran = <<"simulate">>
    /\ (pc # "main" /\ Len(argv) > 1 /\ argv[2] = "verilog") => ran = <<"generate_verilog">>
    /\ ran = <<"generate_verilog">> => (edges = 0 /\ pc \in {"verilog", "exit"})
    /\ ran = <<"simulate">> => pc # "verilog"

\* C12 witness: `counter.py verilog` has run the generator and returned.
C12_Witness ==
    /\ argv = <<"counter.py", "verilog">>
    /\ pc = "exit"
    /\ status = "returned"
    /\ ran = <<"generate_verilog">>

\* a first argument other than the literal `verilog`
InvalidArg == Len(argv) > 1 /\ argv[2] # "verilog"

\* C13 as stated: an invocation with an invalid first argument ends in a
\* failure, never in a completed run.
C13_InvalidArgFails == (InvalidArg /\ pc = "exit") => status = "raised"

\* C13 as amended: an invalid first argument is not rejected: the invocation
\* calls simulate(), as with no argument, never generate_verilog(), and when
\* it returns it has completed the whole simulation run (276 clock edges).
C13_InvalidArgSimulates ==
    /\ (InvalidArg /\ pc # "main") => (ran = <<"simulate">> /\ pc # "verilog")
    /\ (InvalidArg /\ status = "returned") => (pc = "exit" /\ edges = 276)

\* C13 witness: `counter.py Verilog` has completed a normal simulation run.
C13_Witness ==
    /\ argv = <<"counter.py", "Verilog">>
    /\ pc = "exit"
    /\ status = "returned"
    /\ ran = <<"simulate">>
    /\ edges = 276

----------------------------------------------------------------------------
(* Properties of the testbench driving the Counter (SpecDriver) *)

\* C15: phase 5 is entered with count = 30 and always ends on a true reading
\* of overflow, the first one, at cycle 226; the cap of 300 is never reached.
C15_PollStopsAt226 ==
    /\ cycles < 300
    /\ (pc = "tick5" /\ cycles = 0) => count = 30
    /\ pc \in {"tick5", "read5"} => ~ovRead
    /\ pc \in {"tick6", "done"} => (ovRead /\ cycles = 226 /\ reads = 226)

\* C15 witness: the loop has just ended on the true reading at cycle 226.
C15_Witness == pc = "tick6" /\ i = 0 /\ ovRead /\ cycles = 226 /\ count = 0 /\ overflow

\* C16: the run takes exactly 276 clock edges and ends with count = 10 and
\* overflow false; overflow is true after exactly one edge, the one that ends
\* phase 5 (edge 40 + 226 = 266).
C16_WholeRun ==
    /\ <>(pc = "done")
    /\ [](edges <= 276)
    /\ [](pc = "done" => (edges = 276 /\ count = 10 /\ ~overflow))
    /\ [](overflow <=> edges = 266)
    /\ [](edges = 266 => (cycles = 226 /\ pc \in {"read5", "tick6"}))

\* C16 witness: the testbench has returned.
C16_Witness == pc = "done" /\ edges = 276 /\ count = 10 /\ ~overflow /\ nEnabled = 266

====
